---- MODULE Spec2Model ----
(***************************************************************************)
(* A model of store/store.go: the file-backed credential store of          *)
(* docker-credential-gcr.  The state is the credential file (absent, or    *)
(* present with some bytes), and the operations are the seven methods of   *)
(* GCRCredStore.  Spec runs the methods one after the other, each as one   *)
(* step; ConcSpec runs two invocations side by side, step by step (load,   *)
(* create/truncate, write+close), as two helper processes would.           *)
(***************************************************************************)
EXTENDS Naturals, Sequences, FiniteSets

VARIABLES
    file,    \* the file at credentialPath: [present, bytes]
    pre,     \* the file as it was when the most recent call started
    last,    \* the most recent call: [op, arg, err, res, io]
    procs,   \* ConcSpec: each invocation's position and local variables
    writer,  \* ConcSpec: the invocations that wrote the file, oldest first
    abs      \* Spec: the abstract store the successful sets and deletes made

vars == <<file, pre, last, procs, writer, abs>>

(***************************************************************************)
(* Bounds and value universes.                                             *)
(***************************************************************************)
NumSecrets == 2
\* A failed write got at most MaxCut tokens out (the longest encoding has 5).
MaxCut == 4

URLs == {"https://x", "https://y"}
Usernames == {"alice"}
Secrets == 1..NumSecrets   \* a secret string, named by its number

\* A time.Time: the instant (wall, 0 = the zero time) and whether the value
\* carries a monotonic clock reading, as time.Now() values do.
ZeroTime == [wall |-> 0, mono |-> FALSE]

\* The oauth2.Token arguments given to SetGCRAuth.
Tokens ==
    { [AccessToken |-> "a1", RefreshToken |-> "r1", Expiry |-> [wall |-> 1, mono |-> TRUE]],
      [AccessToken |-> "a2", RefreshToken |-> "r2", Expiry |-> [wall |-> 2, mono |-> FALSE]],
      [AccessToken |-> "a1", RefreshToken |-> "r2", Expiry |-> ZeroTime] }

\* The credentials.Credentials arguments given to SetOtherCreds.
Credentials ==
    [ServerURL : URLs, Username : Usernames, Secret : Secrets]

(***************************************************************************)
(* Errors, each named by the message or the cause the code gives it.       *)
(***************************************************************************)
NoErr == "nil"
ErrNotExist == "open: no such file or directory"
ErrDecode == "docker-credential-gcr/store: failed to decode credentials from path"
ErrNoCreds == "docker-credential-gcr/store: no credentials present for url"
ErrGCRNotPresent == "GCR Credentials not present in store"
ErrMkdir == "mkdir: failed"
ErrCreate == "docker-credential-gcr/store: failed to create credential file"
ErrWrite == "write: failed"
ErrClose == "close: failed"

\* The errors authErr builds: they carry the prefix
\* "docker-credential-gcr/store: ".
authErr == {ErrDecode, ErrNoCreds, ErrCreate}

\* os.IsNotExist
IsNotExist(err) == err = ErrNotExist

(***************************************************************************)
(* In-memory values.  A pointer is <<>> (nil) or <<v>>; a Go map is        *)
(* [isNil, kv], a nil map having no entries.                               *)
(***************************************************************************)
NilMap == [isNil |-> TRUE, kv |-> <<>>]
EmptyMap == [isNil |-> FALSE, kv |-> <<>>]

\* The zero dockerCredentials{}.
dockerCredentials == [GCRCreds |-> <<>>, OtherCreds |-> NilMap]

\* MapPut that leaves an entry the map already has.
MapPutKeepsOld(m, k, v) ==
    [isNil |-> FALSE,
     kv |-> [x \in (DOMAIN m.kv) \cup {k} |-> IF x \in DOMAIN m.kv THEN m.kv[x] ELSE v]]

\* m[k] = v on a Go map.
MapPut(m, k, v) ==
    [isNil |-> FALSE,
     kv |-> [x \in (DOMAIN m.kv) \cup {k} |-> IF x = k THEN v ELSE m.kv[x]]]

\* delete(m, k) on a Go map.
MapDelete(m, k) ==
    [isNil |-> m.isNil, kv |-> [x \in (DOMAIN m.kv) \ {k} |-> m.kv[x]]]

(***************************************************************************)
(* The codec.  The file's bytes are a sequence of JSON tokens: "{", one    *)
(* token per member (its key and value), "}", and the newline the encoder  *)
(* appends.  A short write leaves a prefix of that sequence.               *)
(***************************************************************************)
LBrace == [t |-> "{"]
RBrace == [t |-> "}"]
Newline == [t |-> "nl"]

\* time.Time's MarshalJSON: the RFC 3339 text names the instant only.
FormatTime(tm) == tm.wall
\* time.Time's UnmarshalJSON.
ParseTime(s) == [wall |-> s, mono |-> FALSE]

\* The JSON object of a tokens struct; token_expiry has no omitempty.
EncodeTokens(tk) ==
    [access_token |-> tk.AccessToken,
     refresh_token |-> tk.RefreshToken,
     token_expiry |-> IF tk.TokenExpiry = <<>>
                      THEN [kind |-> "null"]
                      ELSE [kind |-> "string", s |-> FormatTime(tk.TokenExpiry[1])]]

\* Decoding a "gcrCreds" object into the struct old points to (a fresh one
\* when old is nil): a member the object omits keeps the field's value.
DecodeTokens(old, obj) ==
    LET before == IF old = <<>> THEN <<>> ELSE old[1].TokenExpiry
    IN  [AccessToken |-> obj.access_token,
         RefreshToken |-> obj.refresh_token,
         TokenExpiry |-> CASE obj.token_expiry.kind = "string" ->
                                  <<ParseTime(obj.token_expiry.s)>>
                           [] obj.token_expiry.kind = "null" -> <<>>
                           [] OTHER -> before]

\* The JSON object of a credentials.Credentials (no field tags).
EncodeCredentials(c) ==
    [ServerURL |-> c.ServerURL, Username |-> c.Username, Secret |-> c.Secret]

DecodeCredentials(obj) ==
    [ServerURL |-> obj.ServerURL, Username |-> obj.Username, Secret |-> obj.Secret]

\* json.Encoder.Encode of a dockerCredentials: omitempty drops a nil
\* GCRCreds and a nil or empty OtherCreds.
Encode(creds) ==
    <<LBrace>>
    \o (IF creds.GCRCreds = <<>>
        THEN <<>>
        ELSE <<[t |-> "gcrCreds", gcr |-> EncodeTokens(creds.GCRCreds[1])]>>)
    \o (IF DOMAIN creds.OtherCreds.kv = {}
        THEN <<>>
        ELSE <<[t |-> "otherCreds",
                other |-> [u \in DOMAIN creds.OtherCreds.kv |->
                              EncodeCredentials(creds.OtherCreds.kv[u])]]>>)
    \o <<RBrace, Newline>>

IsMember(tok) == tok.t \in {"gcrCreds", "otherCreds"}

\* Where the first JSON value of bytes ends: the index of its "}", or 0
\* when bytes does not start with a complete object.
ValueEnd(bytes) ==
    LET ends == {i \in 2..Len(bytes) :
                    /\ bytes[1] = LBrace
                    /\ bytes[i] = RBrace
                    /\ \A j \in 2..(i - 1) : IsMember(bytes[j])}
    IN  IF ends = {} THEN 0 ELSE CHOOSE i \in ends : \A j \in ends : i <= j

\* Decoding one member into the struct.
DecodeMember(creds, tok) ==
    IF tok.t = "gcrCreds"
    THEN [creds EXCEPT !.GCRCreds = <<DecodeTokens(creds.GCRCreds, tok.gcr)>>]
    ELSE [creds EXCEPT !.OtherCreds =
             [isNil |-> FALSE,
              kv |-> [u \in (DOMAIN creds.OtherCreds.kv) \cup (DOMAIN tok.other) |->
                         IF u \in DOMAIN tok.other
                         THEN DecodeCredentials(tok.other[u])
                         ELSE creds.OtherCreds.kv[u]]]]

RECURSIVE DecodeMembers(_, _)
DecodeMembers(creds, members) ==
    IF members = <<>>
    THEN creds
    ELSE DecodeMembers(DecodeMember(creds, Head(members)), Tail(members))

\* json.Decoder.Decode into a zero dockerCredentials: it reads the first
\* JSON value and leaves what follows it unread.
Decode(bytes) ==
    LET e == ValueEnd(bytes)
    IN  IF e = 0
        THEN [ok |-> FALSE, creds |-> dockerCredentials]
        ELSE [ok |-> TRUE,
              creds |-> DecodeMembers(dockerCredentials, SubSeq(bytes, 2, e - 1))]

(***************************************************************************)
(* The file and the private helpers.                                       *)
(***************************************************************************)
Absent == [present |-> FALSE, bytes |-> <<>>]

\* What the operating system can make of one write: nothing fails, the
\* directory or the file cannot be created, the write stops after `cut`
\* tokens, or the close reports an error.
Faults ==
    { [at |-> "ok", cut |-> 0], [at |-> "mkdir", cut |-> 0],
      [at |-> "create", cut |-> 0], [at |-> "close", cut |-> 0] }
    \cup { [at |-> "write", cut |-> k] : k \in 0..MaxCut }

\* loadDockerCredentials: (creds, err).
loadDockerCredentials(f) ==
    IF ~f.present
    THEN [creds |-> dockerCredentials, err |-> ErrNotExist]
    ELSE LET d == Decode(f.bytes)
         IN  IF d.ok
             THEN [creds |-> d.creds, err |-> NoErr]
             ELSE [creds |-> dockerCredentials, err |-> ErrDecode]

\* createCredentialFile: os.MkdirAll, then os.Create, which truncates.
createCredentialFile(f, fault) ==
    CASE fault.at = "mkdir" -> [file |-> f, err |-> ErrMkdir]
      [] fault.at = "create" -> [file |-> f, err |-> ErrCreate]
      [] OTHER -> [file |-> [present |-> TRUE, bytes |-> <<>>], err |-> NoErr]

\* A descriptor opened for appending: data lands after what is there.
OverlayAppends(data, old) == old \o data

\* Writing data at offset 0 of a file that holds old.
Overlay(data, old) == data \o SubSeq(old, Len(data) + 1, Len(old))

\* A failed write wrote fewer tokens than the encoding has.
ShortOf(enc, cut) == IF cut < Len(enc) THEN cut ELSE Len(enc) - 1

\* The second half of setDockerCredentials: Encode (one Write of the whole
\* encoding at the descriptor's offset 0), then Close.
writeAndClose(f, creds, fault) ==
    LET enc == Encode(creds)
    IN  IF fault.at = "write"
        THEN [file |-> [present |-> TRUE,
                        bytes |-> Overlay(SubSeq(enc, 1, ShortOf(enc, fault.cut)),
                                         f.bytes)],
              err |-> ErrWrite]
        ELSE [file |-> [present |-> TRUE, bytes |-> Overlay(enc, f.bytes)],
              err |-> IF fault.at = "close" THEN ErrClose ELSE NoErr]

\* setDockerCredentials.
setDockerCredentials(f, creds, fault) ==
    LET c == createCredentialFile(f, fault)
    IN  IF c.err # NoErr THEN c ELSE writeAndClose(c.file, creds, fault)

(***************************************************************************)
(* The public operations.  Each mutator first decides, from what it        *)
(* loaded, whether it writes and what (its plan); the handler then runs    *)
(* setDockerCredentials on that.  A handler's value is the file it leaves, *)
(* err, res, and io: how its setDockerCredentials went ("unused" when it   *)
(* made no such call).                                                     *)
(***************************************************************************)
Return(f, err, res) == [file |-> f, err |-> err, res |-> res, io |-> "unused"]

\* AllThirdPartyCreds taking a failed load for "no credentials".
AllThirdPartyCredsSwallowsLoadError(f) ==
    LET ld == loadDockerCredentials(f)
    IN  Return(f, NoErr, <<ld.creds.OtherCreds>>)

\* AllThirdPartyCreds: (map, err).
AllThirdPartyCreds(f) ==
    LET ld == loadDockerCredentials(f)
    IN  IF ld.err # NoErr
        THEN Return(f, ld.err, <<>>)
        ELSE Return(f, NoErr, <<ld.creds.OtherCreds>>)

\* GetOtherCreds without the check of `present` (line 102): a missing
\* entry comes back as the zero Credentials.
GetOtherCredsIgnoresPresent(f, serverURL) ==
    LET all == AllThirdPartyCreds(f)
    IN  IF all.err # NoErr
        THEN Return(f, all.err, <<>>)
        ELSE IF serverURL \notin DOMAIN all.res[1].kv
             THEN Return(f, NoErr, <<[ServerURL |-> "", Username |-> "", Secret |-> 0]>>)
             ELSE Return(f, NoErr, <<all.res[1].kv[serverURL]>>)

\* GetOtherCreds: (*Credentials, err).
GetOtherCreds(f, serverURL) ==
    LET all == AllThirdPartyCreds(f)
    IN  IF all.err # NoErr
        THEN Return(f, all.err, <<>>)
        ELSE IF serverURL \notin DOMAIN all.res[1].kv
             THEN Return(f, ErrNoCreds, <<>>)
             ELSE Return(f, NoErr, <<all.res[1].kv[serverURL]>>)

\* SetOtherCredsPlan without line 113: the stored value keeps its URL.
SetOtherCredsKeepsURL(ld, newCreds) ==
    LET creds == IF ld.err # NoErr THEN dockerCredentials ELSE ld.creds
    IN  [write |-> TRUE,
         creds |-> [creds EXCEPT !.OtherCreds = MapPut(@, newCreds.ServerURL, newCreds)],
         err |-> NoErr]

\* SetOtherCredsPlan making a new map for every call, whether or not the
\* loaded record has one.
SetOtherCredsReplacesMap(ld, newCreds) ==
    LET serverURL == newCreds.ServerURL
        cleared == [newCreds EXCEPT !.ServerURL = ""]
        creds == IF ld.err # NoErr THEN dockerCredentials ELSE ld.creds
    IN  [write |-> TRUE,
         creds |-> [creds EXCEPT !.OtherCreds = MapPut(EmptyMap, serverURL, cleared)],
         err |-> NoErr]

\* SetOtherCreds up to its call of setDockerCredentials.
SetOtherCredsPlan(ld, newCreds) ==
    LET serverURL == newCreds.ServerURL
        cleared == [newCreds EXCEPT !.ServerURL = ""]
        creds == IF ld.err # NoErr THEN dockerCredentials ELSE ld.creds
        made == IF creds.OtherCreds.isNil
                THEN [creds EXCEPT !.OtherCreds = EmptyMap]
                ELSE creds
    IN  [write |-> TRUE,
         creds |-> [made EXCEPT !.OtherCreds = MapPut(@, serverURL, cleared)],
         err |-> NoErr]

\* DeleteOtherCredsPlan without the check of lines 143-144: it rewrites the
\* file whether or not the entry exists.
DeleteOtherCredsAlwaysWrites(ld, serverURL) ==
    IF ld.err # NoErr
    THEN [write |-> FALSE, creds |-> ld.creds,
          err |-> IF IsNotExist(ld.err) THEN NoErr ELSE ld.err]
    ELSE [write |-> TRUE,
          creds |-> [ld.creds EXCEPT !.OtherCreds = MapDelete(@, serverURL)],
          err |-> NoErr]

\* DeleteOtherCreds up to its call of setDockerCredentials, or its return.
DeleteOtherCredsPlan(ld, serverURL) ==
    IF ld.err # NoErr
    THEN [write |-> FALSE, creds |-> ld.creds,
          err |-> IF IsNotExist(ld.err) THEN NoErr ELSE ld.err]
    ELSE IF ~ld.creds.OtherCreds.isNil /\ serverURL \in DOMAIN ld.creds.OtherCreds.kv
         THEN [write |-> TRUE,
               creds |-> [ld.creds EXCEPT !.OtherCreds = MapDelete(@, serverURL)],
               err |-> NoErr]
         ELSE [write |-> FALSE, creds |-> ld.creds, err |-> NoErr]

\* SetGCRAuthPlan merging into the stored tokens: an existing refresh
\* token is kept.
SetGCRAuthMerges(ld, tok) ==
    LET creds == IF ld.err # NoErr THEN dockerCredentials ELSE ld.creds
    IN  [write |-> TRUE,
         creds |-> [creds EXCEPT !.GCRCreds =
                       <<[AccessToken |-> tok.AccessToken,
                          RefreshToken |-> IF creds.GCRCreds = <<>>
                                           THEN tok.RefreshToken
                                           ELSE creds.GCRCreds[1].RefreshToken,
                          TokenExpiry |-> <<tok.Expiry>>]>>],
         err |-> NoErr]

\* SetGCRAuthPlan giving up when the file is there but cannot be loaded.
SetGCRAuthStopsOnLoadError(ld, tok) ==
    IF ld.err # NoErr /\ ~IsNotExist(ld.err)
    THEN [write |-> FALSE, creds |-> ld.creds, err |-> ld.err]
    ELSE [write |-> TRUE,
          creds |-> [ld.creds EXCEPT !.GCRCreds =
                        <<[AccessToken |-> tok.AccessToken,
                           RefreshToken |-> tok.RefreshToken,
                           TokenExpiry |-> <<tok.Expiry>>]>>],
          err |-> NoErr]

\* SetGCRAuth up to its call of setDockerCredentials.
SetGCRAuthPlan(ld, tok) ==
    LET creds == IF ld.err # NoErr THEN dockerCredentials ELSE ld.creds
    IN  [write |-> TRUE,
         creds |-> [creds EXCEPT !.GCRCreds =
                       <<[AccessToken |-> tok.AccessToken,
                          RefreshToken |-> tok.RefreshToken,
                          TokenExpiry |-> <<tok.Expiry>>]>>],
         err |-> NoErr]

\* DeleteGCRAuthPlan taking every load error for "no file".
DeleteGCRAuthIgnoresLoadError(ld) ==
    IF ld.err # NoErr
    THEN [write |-> FALSE, creds |-> ld.creds, err |-> NoErr]
    ELSE IF ld.creds.GCRCreds # <<>>
         THEN [write |-> TRUE, creds |-> [ld.creds EXCEPT !.GCRCreds = <<>>],
               err |-> NoErr]
         ELSE [write |-> FALSE, creds |-> ld.creds, err |-> NoErr]

\* DeleteGCRAuthPlan without the check of line 226: it rewrites the file
\* whether or not there is primary auth.
DeleteGCRAuthAlwaysWrites(ld) ==
    IF ld.err # NoErr
    THEN [write |-> FALSE, creds |-> ld.creds,
          err |-> IF IsNotExist(ld.err) THEN NoErr ELSE ld.err]
    ELSE [write |-> TRUE, creds |-> [ld.creds EXCEPT !.GCRCreds = <<>>],
          err |-> NoErr]

\* DeleteGCRAuth up to its call of setDockerCredentials, or its return.
DeleteGCRAuthPlan(ld) ==
    IF ld.err # NoErr
    THEN [write |-> FALSE, creds |-> ld.creds,
          err |-> IF IsNotExist(ld.err) THEN NoErr ELSE ld.err]
    ELSE IF ld.creds.GCRCreds # <<>>
         THEN [write |-> TRUE, creds |-> [ld.creds EXCEPT !.GCRCreds = <<>>],
               err |-> NoErr]
         ELSE [write |-> FALSE, creds |-> ld.creds, err |-> NoErr]

Readers == {"GetOtherCreds", "GetGCRAuth", "AllThirdPartyCreds"}

\* The plan of a mutator call.
Plan(op, arg, ld) ==
    CASE op = "SetOtherCreds" -> SetOtherCredsPlan(ld, arg[1])
      [] op = "DeleteOtherCreds" -> DeleteOtherCredsPlan(ld, arg[1])
      [] op = "SetGCRAuth" -> SetGCRAuthPlan(ld, arg[1])
      [] op = "DeleteGCRAuth" -> DeleteGCRAuthPlan(ld)

\* A mutator from its load to its return.
Mutate(f, op, arg, fault) ==
    LET plan == Plan(op, arg, loadDockerCredentials(f))
    IN  IF plan.write
        THEN LET w == setDockerCredentials(f, plan.creds, fault)
             IN  [Return(w.file, w.err, <<>>) EXCEPT !.io = fault.at]
        ELSE Return(f, plan.err, <<>>)

SetOtherCreds(f, newCreds, fault) == Mutate(f, "SetOtherCreds", <<newCreds>>, fault)
DeleteOtherCreds(f, serverURL, fault) == Mutate(f, "DeleteOtherCreds", <<serverURL>>, fault)
SetGCRAuth(f, tok, fault) == Mutate(f, "SetGCRAuth", <<tok>>, fault)
DeleteGCRAuth(f, fault) == Mutate(f, "DeleteGCRAuth", <<>>, fault)

\* GetGCRAuth: (*GCRAuth, err); res is the GCRAuth's initialToken.
GetGCRAuth(f) ==
    LET ld == loadDockerCredentials(f)
    IN  IF ld.err # NoErr
        THEN Return(f, ld.err, <<>>)
        ELSE IF ld.creds.GCRCreds = <<>>
             THEN Return(f, ErrGCRNotPresent, <<>>)
             ELSE LET g == ld.creds.GCRCreds[1]
                      expiry == IF g.TokenExpiry # <<>> THEN g.TokenExpiry[1] ELSE ZeroTime
                  IN  Return(f, NoErr, <<[AccessToken |-> g.AccessToken,
                                          RefreshToken |-> g.RefreshToken,
                                          Expiry |-> expiry]>>)

(***************************************************************************)
(* The token source of a GCRAuth: conf.TokenSource(ctx, initialToken) of   *)
(* golang.org/x/oauth2, which hands out initialToken while it is valid and *)
(* otherwise exchanges the refresh token over the network.  It holds no    *)
(* reference to the store.                                                 *)
(***************************************************************************)
\* The clock readings a token source is used at.
Clock == {1, 3}

ErrRefresh == "oauth2: cannot fetch token"
ErrNoRefreshToken == "oauth2: token expired and refresh token is not set"

\* The access token a refresh obtains.
FreshAccessToken == "fresh"

\* oauth2.Token.Valid: an access token that has not expired; a zero Expiry
\* never expires.
TokenValid(tok, now) ==
    /\ tok.AccessToken # ""
    /\ (tok.Expiry.wall = 0 \/ tok.Expiry.wall > now)

\* A token source that stores what a refresh obtained.
TokenSourcePersistsRefresh(f, now, net) ==
    LET auth == GetGCRAuth(f)
        fresh == [AccessToken |-> FreshAccessToken,
                  RefreshToken |-> IF auth.err = NoErr THEN auth.res[1].RefreshToken ELSE "",
                  Expiry |-> [wall |-> now + 1, mono |-> TRUE]]
    IN  IF auth.err # NoErr
        THEN Return(f, auth.err, <<>>)
        ELSE IF TokenValid(auth.res[1], now)
             THEN Return(f, NoErr, auth.res)
             ELSE IF net = "down"
                  THEN Return(f, ErrRefresh, <<>>)
                  ELSE Return(SetGCRAuth(f, fresh, [at |-> "ok", cut |-> 0]).file,
                              NoErr, <<fresh>>)

\* GetGCRAuth, then TokenSource(ctx).Token() at clock reading now, the
\* network answering a refresh or not; the file is not touched.
TokenSourceToken(f, now, net) ==
    LET auth == GetGCRAuth(f)
    IN  IF auth.err # NoErr
        THEN Return(f, auth.err, <<>>)
        ELSE LET tok == auth.res[1]
             IN  IF TokenValid(tok, now)
                 THEN Return(f, NoErr, <<tok>>)
                 ELSE IF tok.RefreshToken = ""
                      THEN Return(f, ErrNoRefreshToken, <<>>)
                      ELSE IF net = "down"
                           THEN Return(f, ErrRefresh, <<>>)
                           ELSE Return(f, NoErr,
                                       <<[AccessToken |-> FreshAccessToken,
                                          RefreshToken |-> tok.RefreshToken,
                                          Expiry |-> [wall |-> now + 1, mono |-> TRUE]]>>)

(***************************************************************************)
(* Spec: calls made one after the other.                                   *)
(***************************************************************************)
NoCall == [op |-> "none", arg |-> <<>>, err |-> NoErr, res |-> <<>>, io |-> "unused"]

\* A file some other writer of the format left: primary auth without
\* token_expiry.
ForeignFile ==
    [present |-> TRUE,
     bytes |-> <<LBrace,
                 [t |-> "gcrCreds",
                  gcr |-> [access_token |-> "a0", refresh_token |-> "r0",
                           token_expiry |-> [kind |-> "omitted"]]],
                 RBrace, Newline>>]

\* An invocation that has not started: pc is its position (idle, loaded,
\* created, done), base what it loaded, creds what it is about to store.
Idle == [pc |-> "idle", op |-> "none", arg |-> <<>>, base |-> <<>>,
         creds |-> dockerCredentials, err |-> NoErr, res |-> <<>>]

Procs == {"p1", "p2"}

\* The abstract store: whether primary auth is set, and the credential set
\* for each URL.  ok says that the file was absent at first and that every
\* set and delete called so far returned no error; the abstract store is
\* followed only while ok holds.
EmptyStore == [ok |-> TRUE, auth |-> FALSE, kv |-> <<>>]
NoStore == [ok |-> FALSE, auth |-> FALSE, kv |-> <<>>]

\* The abstract store after a call that returned err.
AbstractCall(a, op, arg, err) ==
    IF ~a.ok \/ (op \in {"SetOtherCreds", "DeleteOtherCreds", "SetGCRAuth", "DeleteGCRAuth"}
                   /\ err # NoErr)
    THEN NoStore
    ELSE CASE op = "SetOtherCreds" ->
                  [a EXCEPT !.kv = [u \in (DOMAIN a.kv) \cup {arg[1].ServerURL} |->
                                       IF u = arg[1].ServerURL THEN arg[1] ELSE a.kv[u]]]
           [] op = "DeleteOtherCreds" ->
                  [a EXCEPT !.kv = [u \in (DOMAIN a.kv) \ {arg[1]} |-> a.kv[u]]]
           [] op = "SetGCRAuth" -> [a EXCEPT !.auth = TRUE]
           [] op = "DeleteGCRAuth" -> [a EXCEPT !.auth = FALSE]
           [] OTHER -> a

Init ==
    /\ file \in {Absent, ForeignFile}
    /\ pre = file
    /\ last = NoCall
    /\ procs = [p \in Procs |-> Idle]
    /\ writer = <<>>
    /\ abs = IF file = Absent THEN EmptyStore ELSE NoStore

\* One call, made on file with outcome out, enters the record of calls.
Called(op, arg, out) ==
    /\ file' = out.file
    /\ pre' = file
    /\ last' = [op |-> op, arg |-> arg, err |-> out.err, res |-> out.res, io |-> out.io]
    /\ abs' = AbstractCall(abs, op, arg, out.err)
    /\ UNCHANGED <<procs, writer>>

CallGetOtherCreds ==
    \E u \in URLs : Called("GetOtherCreds", <<u>>, GetOtherCreds(file, u))

CallSetOtherCreds ==
    \E c \in Credentials, fault \in Faults :
        Called("SetOtherCreds", <<c>>, SetOtherCreds(file, c, fault))

CallDeleteOtherCreds ==
    \E u \in URLs, fault \in Faults :
        Called("DeleteOtherCreds", <<u>>, DeleteOtherCreds(file, u, fault))

CallAllThirdPartyCreds ==
    Called("AllThirdPartyCreds", <<>>, AllThirdPartyCreds(file))

CallGetGCRAuth ==
    Called("GetGCRAuth", <<>>, GetGCRAuth(file))

CallTokenSource ==
    \E now \in Clock, net \in {"up", "down"} :
        Called("TokenSource", <<now>>, TokenSourceToken(file, now, net))

CallSetGCRAuth ==
    \E tok \in Tokens, fault \in Faults :
        Called("SetGCRAuth", <<tok>>, SetGCRAuth(file, tok, fault))

CallDeleteGCRAuth ==
    \E fault \in Faults :
        Called("DeleteGCRAuth", <<>>, DeleteGCRAuth(file, fault))

Next ==
    \/ CallGetOtherCreds
    \/ CallSetOtherCreds
    \/ CallDeleteOtherCreds
    \/ CallAllThirdPartyCreds
    \/ CallGetGCRAuth
    \/ CallTokenSource
    \/ CallSetGCRAuth
    \/ CallDeleteGCRAuth

Spec == Init /\ [][Next]_vars

(***************************************************************************)
(* ConcSpec: two helper processes, each making one call, on the same file   *)
(* with no lock.  A call is a load (os.Open and Decode), then,   *)
(* for a mutator that writes, createCredentialFile, then Encode and Close. *)
(***************************************************************************)
Calls ==
    [op : {"SetOtherCreds"}, arg : {<<c>> : c \in Credentials}]
    \cup [op : {"DeleteOtherCreds", "GetOtherCreds"}, arg : {<<u>> : u \in URLs}]
    \cup [op : {"SetGCRAuth"}, arg : {<<tok>> : tok \in Tokens}]
    \cup [op : {"DeleteGCRAuth", "GetGCRAuth", "AllThirdPartyCreds"}, arg : {<<>>}]

\* What a reader returns on f.
Read(f, op, arg) ==
    CASE op = "GetOtherCreds" -> GetOtherCreds(f, arg[1])
      [] op = "GetGCRAuth" -> GetGCRAuth(f)
      [] op = "AllThirdPartyCreds" -> AllThirdPartyCreds(f)

\* p starts a call and runs it up to its first write to the file system:
\* a reader returns, a mutator loads and either returns or is ready to
\* call setDockerCredentials.
Load(p) ==
    /\ procs[p].pc = "idle"
    /\ \E call \in Calls :
          LET ld == loadDockerCredentials(file)
              started == [Idle EXCEPT !.op = call.op, !.arg = call.arg, !.base = <<ld>>]
          IN  IF call.op \in Readers
              THEN LET out == Read(file, call.op, call.arg)
                   IN  procs' = [procs EXCEPT ![p] =
                                    [started EXCEPT !.pc = "done", !.err = out.err,
                                                    !.res = out.res]]
              ELSE LET plan == Plan(call.op, call.arg, ld)
                   IN  procs' = [procs EXCEPT ![p] =
                                    [started EXCEPT
                                        !.pc = IF plan.write THEN "loaded" ELSE "done",
                                        !.creds = plan.creds,
                                        !.err = plan.err]]
    /\ UNCHANGED <<file, pre, last, writer, abs>>

\* p runs createCredentialFile.
Create(p) ==
    /\ procs[p].pc = "loaded"
    /\ \E fault \in {ft \in Faults : ft.at \in {"ok", "mkdir", "create"}} :
          LET c == createCredentialFile(file, fault)
          IN  /\ file' = c.file
              /\ procs' = [procs EXCEPT ![p].pc = IF c.err = NoErr THEN "created" ELSE "done",
                                        ![p].err = c.err]
    /\ UNCHANGED <<pre, last, writer, abs>>

\* p runs Encode and Close on the file it created.
Write(p) ==
    /\ procs[p].pc = "created"
    /\ \E fault \in {ft \in Faults : ft.at \in {"ok", "write", "close"}} :
          LET w == writeAndClose(file, procs[p].creds, fault)
          IN  /\ file' = w.file
              /\ procs' = [procs EXCEPT ![p].pc = "done", ![p].err = w.err]
    /\ writer' = Append(writer, p)
    /\ UNCHANGED <<pre, last, abs>>

ConcNext ==
    \/ \E p \in Procs : Load(p)
    \/ \E p \in Procs : Create(p)
    \/ \E p \in Procs : Write(p)

NoFault == [at |-> "ok", cut |-> 0]

\* The files the two calls may find: none, a foreign one, and one that
\* earlier calls of the store wrote (primary auth and an entry for one URL).
StartFiles ==
    LET tokA == CHOOSE t \in Tokens : t.AccessToken = "a1" /\ t.RefreshToken = "r1"
        cX == [ServerURL |-> "https://x", Username |-> "alice", Secret |-> 1]
    IN  {Absent, ForeignFile,
         SetOtherCreds(SetGCRAuth(Absent, tokA, NoFault).file, cX, NoFault).file}

ConcInit ==
    /\ file \in StartFiles
    /\ pre = file
    /\ last = NoCall
    /\ procs = [p \in Procs |-> Idle]
    /\ writer = <<>>
    /\ abs = NoStore

ConcSpec == ConcInit /\ [][ConcNext]_vars

(***************************************************************************)
(* Vocabulary of the properties.                                           *)
(***************************************************************************)
Valid(f) == f.present /\ Decode(f.bytes).ok
Corrupt(f) == f.present /\ ~Decode(f.bytes).ok
AbsentOrValid(f) == ~f.present \/ Valid(f)
\* The record a valid file holds.
RecordOf(f) == Decode(f.bytes).creds

Setters == {"SetOtherCreds", "SetGCRAuth"}
Deleters == {"DeleteOtherCreds", "DeleteGCRAuth"}
Mutators == Setters \cup Deleters

\* The error kinds of the specification's error handling design.
NotFoundError == {ErrNoCreds, ErrGCRNotPresent}
DecodeError == {ErrDecode}
IOError == {ErrNotExist, ErrMkdir, ErrCreate, ErrWrite, ErrClose}

\* A credential as it is stored: its own URL cleared.
Stored(c) == [ServerURL |-> "", Username |-> c.Username, Secret |-> c.Secret]

(***************************************************************************)
(* Properties of Spec.                                                     *)
(***************************************************************************)

\* C1: after SetOtherCreds(c) returned without error on a file that was
\* absent or valid, GetOtherCreds(c.ServerURL) returns without error c's
\* username and secret, with an empty ServerURL.
C1_SetThenGet ==
    (last.op = "SetOtherCreds" /\ last.err = NoErr /\ AbsentOrValid(pre)) =>
        LET c == last.arg[1]
            got == GetOtherCreds(file, c.ServerURL)
        IN  /\ got.err = NoErr
            /\ got.res = <<Stored(c)>>
            /\ got.res[1].ServerURL = ""
            /\ c.ServerURL \in DOMAIN RecordOf(file).OtherCreds.kv

\* A set that replaced another secret for the same URL, next to an entry
\* for another URL.
C1_Witness ==
    /\ last.op = "SetOtherCreds" /\ last.err = NoErr /\ Valid(pre)
    /\ LET c == last.arg[1]
           before == RecordOf(pre).OtherCreds.kv
       IN  /\ DOMAIN before = URLs
           /\ before[c.ServerURL].Secret # c.Secret
           /\ GetOtherCreds(file, c.ServerURL).res = <<Stored(c)>>

\* C2: after SetGCRAuth(B) returned without error, whatever was stored
\* before (the token A of an earlier SetGCRAuth included), GetGCRAuth
\* succeeds with B's access token, refresh token and expiry instant, and the
\* file holds one gcrCreds member, which is B's.
C2_OverwritePrimaryAuth ==
    (last.op = "SetGCRAuth" /\ last.err = NoErr) =>
        LET B == last.arg[1]
            got == GetGCRAuth(file)
            members == {i \in 1..Len(file.bytes) : file.bytes[i].t = "gcrCreds"}
        IN  /\ got.err = NoErr
            /\ got.res[1].AccessToken = B.AccessToken
            /\ got.res[1].RefreshToken = B.RefreshToken
            /\ got.res[1].Expiry.wall = B.Expiry.wall
            /\ Cardinality(members) = 1
            /\ \A i \in members :
                   file.bytes[i].gcr =
                       [access_token |-> B.AccessToken,
                        refresh_token |-> B.RefreshToken,
                        token_expiry |-> [kind |-> "string", s |-> B.Expiry.wall]]

\* SetGCRAuth(B) on a file that held a token A differing from B in every
\* field.
C2_Witness ==
    /\ last.op = "SetGCRAuth" /\ last.err = NoErr /\ Valid(pre)
    /\ GetGCRAuth(pre).err = NoErr
    /\ LET A == GetGCRAuth(pre).res[1]
           B == last.arg[1]
       IN  /\ A.AccessToken \in {t.AccessToken : t \in Tokens}
           /\ A.AccessToken # B.AccessToken
           /\ A.RefreshToken # B.RefreshToken
           /\ A.Expiry.wall # B.Expiry.wall
           /\ GetGCRAuth(file).res[1].AccessToken = B.AccessToken

\* C3 as stated: a delete on an absent or valid file returns no error, and
\* so does the same delete made again, which leaves the file as it is.
C3_DeleteNeverErrors ==
    (last.op \in Deleters /\ AbsentOrValid(pre)) =>
        /\ last.err = NoErr
        /\ \A fault \in Faults :
               Mutate(file, last.op, last.arg, fault).err = NoErr
        /\ \A fault \in Faults :
               Mutate(file, last.op, last.arg, fault).file = file

\* C3, amended: a delete on an absent or valid file fails only when it has
\* to rewrite the file and the operating system fails that; when it returned
\* no error, the same delete made again returns no error, whatever the
\* operating system would do, without touching the file; and a delete with
\* no file returns no error and leaves no file.
C3_IdempotentDelete ==
    (last.op \in Deleters /\ AbsentOrValid(pre)) =>
        /\ last.err # NoErr => (last.io # "unused" /\ last.err \in IOError)
        /\ last.err = NoErr =>
               \A fault \in Faults :
                   LET again == Mutate(file, last.op, last.arg, fault)
                   IN  /\ again.err = NoErr
                       /\ again.file = file
                       /\ again.io = "unused"
        /\ ~pre.present => (last.err = NoErr /\ file = pre)

\* A delete that removed an entry, and one made with no file.
C3_Witness ==
    /\ last.op = "DeleteOtherCreds" /\ last.err = NoErr /\ Valid(pre)
    /\ last.arg[1] \in DOMAIN RecordOf(pre).OtherCreds.kv
    /\ last.arg[1] \notin DOMAIN RecordOf(file).OtherCreds.kv
    /\ file # pre

\* C4: on a file that is present and does not decode, the three readers
\* and the two deletes fail with the decode error, and the deletes leave the
\* file as it is.
C4_CorruptFilePropagation ==
    (Corrupt(pre) /\ last.op \in Readers \cup Deleters) =>
        /\ last.err = ErrDecode
        /\ last.err \in DecodeError
        /\ file = pre
        /\ last.io = "unused"
        /\ last.res = <<>>

C4_Witness ==
    /\ Corrupt(pre)
    /\ pre.bytes # <<>>
    /\ last.op = "DeleteGCRAuth"
    /\ last.err = ErrDecode
    /\ file = pre

\* The file after a set from scratch: valid, with the item of the call and
\* nothing else, and the matching get returns that item.
C5_FileHoldsOnlyTheNewItem ==
        /\ Valid(file)
        /\ last.op = "SetOtherCreds" =>
               LET c == last.arg[1]
               IN  /\ RecordOf(file) =
                          [GCRCreds |-> <<>>,
                           OtherCreds |->
                               [isNil |-> FALSE,
                                kv |-> [u \in {c.ServerURL} |-> Stored(c)]]]
                   /\ GetOtherCreds(file, c.ServerURL).err = NoErr
                   /\ GetOtherCreds(file, c.ServerURL).res = <<Stored(c)>>
        /\ last.op = "SetGCRAuth" =>
               LET tok == last.arg[1]
               IN  /\ RecordOf(file) =
                          [GCRCreds |-> <<[AccessToken |-> tok.AccessToken,
                                           RefreshToken |-> tok.RefreshToken,
                                           TokenExpiry |-> <<[wall |-> tok.Expiry.wall,
                                                              mono |-> FALSE]>>]>>,
                           OtherCreds |-> NilMap]
                   /\ GetGCRAuth(file).err = NoErr
                   /\ GetGCRAuth(file).res[1].AccessToken = tok.AccessToken

\* C5: a set that finds no file, or a file that does not decode, goes on
\* to write all the same (its only errors are those of the write), and when
\* the write succeeds it returns no error and leaves a valid file holding
\* the new item and nothing else, which the matching get then returns.
C5_SetFromScratch ==
    (last.op \in Setters /\ (~pre.present \/ Corrupt(pre))) =>
        /\ last.io # "unused"
        /\ last.err \in {NoErr, ErrMkdir, ErrCreate, ErrWrite, ErrClose}
        /\ (last.io = "ok") = (last.err = NoErr)
        /\ last.io = "ok" => C5_FileHoldsOnlyTheNewItem

\* A SetGCRAuth over a corrupt, non-empty file.
C5_Witness ==
    /\ last.op = "SetGCRAuth" /\ last.io = "ok" /\ last.err = NoErr
    /\ Corrupt(pre) /\ pre.bytes # <<>>
    /\ Valid(file)

\* A SetOtherCreds with no file.
C5_WitnessNoFile ==
    /\ last.op = "SetOtherCreds" /\ last.io = "ok" /\ ~pre.present
    /\ file.present

\* C6 as stated: a mutator that returns an error leaves the file exactly
\* as it was before the call.
C6_NoPartialFailure ==
    (last.op \in Mutators /\ last.err # NoErr) => file = pre

\* C9 as stated: GetOtherCreds with no entry for the URL or with no file,
\* and GetGCRAuth with no file or no primary auth, fail with a NotFoundError
\* that is no IOError and no DecodeError.
C9_GetsFailNotFound ==
    /\ (last.op = "GetOtherCreds"
          /\ (~pre.present
                \/ (Valid(pre) /\ last.arg[1] \notin DOMAIN RecordOf(pre).OtherCreds.kv))) =>
           (last.err \in NotFoundError /\ last.err \notin IOError \cup DecodeError)
    /\ (last.op = "GetGCRAuth"
          /\ (~pre.present \/ (Valid(pre) /\ RecordOf(pre).GCRCreds = <<>>))) =>
           (last.err \in NotFoundError /\ last.err \notin IOError \cup DecodeError)

\* C9, amended: on a valid file without the entry GetOtherCreds fails with
\* its NotFoundError, and on a valid file without primary auth GetGCRAuth
\* fails with its NotFoundError; with no file both return the error of
\* os.Open as it is, an IOError that os.IsNotExist recognises.
C9_GetsNotFoundOrNotExist ==
    /\ (last.op = "GetOtherCreds" /\ Valid(pre)
          /\ last.arg[1] \notin DOMAIN RecordOf(pre).OtherCreds.kv) =>
           (last.err = ErrNoCreds /\ last.err \in NotFoundError /\ last.res = <<>>)
    /\ (last.op = "GetGCRAuth" /\ Valid(pre) /\ RecordOf(pre).GCRCreds = <<>>) =>
           (last.err = ErrGCRNotPresent /\ last.err \in NotFoundError /\ last.res = <<>>)
    /\ (last.op \in {"GetOtherCreds", "GetGCRAuth"} /\ ~pre.present) =>
           (IsNotExist(last.err) /\ last.err \in IOError /\ last.res = <<>>)

\* GetOtherCreds for a URL the valid file has no entry for, beside an entry
\* for the other URL.
C9_Witness ==
    /\ last.op = "GetOtherCreds" /\ Valid(pre)
    /\ DOMAIN RecordOf(pre).OtherCreds.kv = URLs \ {last.arg[1]}
    /\ last.err = ErrNoCreds

\* C10 as stated: AllThirdPartyCreds fails only on a file that is there
\* (then with an IOError or a DecodeError), and with no third-party
\* credential stored it returns an empty mapping, not an error.
C10_AllFailsOnlyOnPresentFile ==
    last.op = "AllThirdPartyCreds" =>
        /\ last.err # NoErr => (pre.present /\ last.err \in IOError \cup DecodeError)
        /\ (~pre.present \/ (Valid(pre) /\ DOMAIN RecordOf(pre).OtherCreds.kv = {})) =>
               (last.err = NoErr /\ DOMAIN last.res[1].kv = {})

\* C10, amended: on a valid file AllThirdPartyCreds returns the whole
\* mapping of the file's record, empty when the record has none; it fails
\* exactly when there is no file (the not-exist error of os.Open) or the
\* file does not decode (the decode error).
C10_AllThirdPartyCreds ==
    last.op = "AllThirdPartyCreds" =>
        /\ Valid(pre) =>
               /\ last.err = NoErr
               /\ last.res = <<RecordOf(pre).OtherCreds>>
               /\ \A u \in URLs :
                      (u \in DOMAIN last.res[1].kv) = (GetOtherCreds(pre, u).err = NoErr)
               /\ \A u \in DOMAIN last.res[1].kv :
                      <<last.res[1].kv[u]>> = GetOtherCreds(pre, u).res
        /\ ~pre.present => (IsNotExist(last.err) /\ last.res = <<>>)
        /\ Corrupt(pre) => (last.err = ErrDecode /\ last.res = <<>>)
        /\ file = pre

\* The full mapping of a file with both URLs, and the empty mapping of a
\* valid file with primary auth only.
C10_Witness ==
    /\ last.op = "AllThirdPartyCreds" /\ last.err = NoErr
    /\ DOMAIN last.res[1].kv = URLs

C10_WitnessEmpty ==
    /\ last.op = "AllThirdPartyCreds" /\ last.err = NoErr
    /\ Valid(pre) /\ RecordOf(pre).GCRCreds # <<>>
    /\ DOMAIN last.res[1].kv = {}

(***************************************************************************)
(* Properties of ConcSpec.                                                 *)
(***************************************************************************)

\* Two SetOtherCreds calls for different URLs that loaded the same prior
\* record, both returned without error, p writing first and q last.
LostUpdateRun(p, q) ==
    /\ p # q
    /\ procs[p].pc = "done" /\ procs[q].pc = "done"
    /\ procs[p].op = "SetOtherCreds" /\ procs[q].op = "SetOtherCreds"
    /\ procs[p].err = NoErr /\ procs[q].err = NoErr
    /\ procs[p].arg[1].ServerURL # procs[q].arg[1].ServerURL
    /\ procs[p].base = procs[q].base
    /\ writer = <<p, q>>

\* C7: whenever two unlocked SetOtherCreds calls for different URLs loaded
\* the same prior record and both returned without error, the file holds
\* the prior record plus the last writer's entry only: the first writer's
\* URL is as it was in the prior record, its new value gone.
C7_LostUpdate ==
    \A p, q \in Procs :
        LostUpdateRun(p, q) =>
            LET prior == procs[p].base[1].creds.OtherCreds.kv
                now == RecordOf(file).OtherCreds.kv
                cp == procs[p].arg[1]
                cq == procs[q].arg[1]
            IN  /\ Valid(file)
                /\ RecordOf(file) = procs[q].creds
                /\ now[cq.ServerURL] = Stored(cq)
                /\ (cp.ServerURL \in DOMAIN now) = (cp.ServerURL \in DOMAIN prior)
                /\ cp.ServerURL \in DOMAIN now =>
                       now[cp.ServerURL] = prior[cp.ServerURL]
                /\ GetOtherCreds(file, cq.ServerURL).err = NoErr

\* The run of C7 in which the first writer's entry is nowhere in the file,
\* and one in which the first writer's new secret is replaced by the old.
C7_Witness ==
    \E p, q \in Procs :
        /\ LostUpdateRun(p, q)
        /\ GetOtherCreds(file, procs[p].arg[1].ServerURL).err = ErrNoCreds
        /\ GetOtherCreds(file, procs[q].arg[1].ServerURL).err = NoErr

C7_WitnessOldValue ==
    \E p, q \in Procs :
        /\ LostUpdateRun(p, q)
        /\ GetOtherCreds(file, procs[p].arg[1].ServerURL).err = NoErr
        /\ GetOtherCreds(file, procs[p].arg[1].ServerURL).res # <<Stored(procs[p].arg[1])>>

\* C8 as stated: in every state, between a call's create and its write
\* included, the file, when present, decodes.
C8_FileAlwaysDecodes ==
    file.present => Decode(file.bytes).ok

\* C8 as stated, seen by the other call: no reader gets the decode error.
C8_NoReaderSeesCorruptFile ==
    \A p \in Procs :
        (procs[p].pc = "done" /\ procs[p].op \in Readers) => procs[p].err # ErrDecode

(***************************************************************************)
(* Properties of Spec: reads, the token source, the file's lifecycle.      *)
(***************************************************************************)
ReadOnlyCalls == Readers \cup {"TokenSource"}

\* The stored primary auth of a valid file has no expiry.
StoredWithoutExpiry(f) ==
    /\ Valid(f)
    /\ RecordOf(f).GCRCreds # <<>>
    /\ RecordOf(f).GCRCreds[1].TokenExpiry = <<>>

\* C11: GetGCRAuth, GetOtherCreds, AllThirdPartyCreds and a use of the
\* token source, a refresh included, leave the file as it is and make no
\* write, so GetGCRAuth afterwards gives what it gave before: after a
\* GetGCRAuth the same token again, after a refresh still the stored token
\* and not the refreshed one.
C11_ReadsDoNotMutate ==
    last.op \in ReadOnlyCalls =>
        /\ file = pre
        /\ last.io = "unused"
        /\ last.op = "GetGCRAuth" =>
               (GetGCRAuth(file).err = last.err /\ GetGCRAuth(file).res = last.res)
        /\ (last.op = "TokenSource" /\ last.err = NoErr) =>
               /\ GetGCRAuth(file).err = NoErr
               /\ GetGCRAuth(file).res[1].AccessToken # FreshAccessToken
               /\ GetGCRAuth(file).res[1].RefreshToken = last.res[1].RefreshToken

\* A refresh of an expired stored token, after which the store still gives
\* the expired one.
C11_Witness ==
    /\ last.op = "TokenSource" /\ last.err = NoErr
    /\ last.res[1].AccessToken = FreshAccessToken
    /\ GetGCRAuth(file).err = NoErr
    /\ GetGCRAuth(file).res[1].AccessToken = "a1"
    /\ ~TokenValid(GetGCRAuth(file).res[1], last.arg[1])

\* C20: when the stored primary auth has no expiry (token_expiry omitted or
\* null in the file), the token source refreshes with the refresh token
\* before it yields an access token: a call that yields one yields the
\* refreshed one, never the stored one.
C20_AbsentExpiryMeansExpired ==
    (last.op = "TokenSource" /\ StoredWithoutExpiry(pre) /\ last.err = NoErr) =>
        last.res[1].AccessToken = FreshAccessToken

\* No value of an "otherCreds" object in the bytes carries a URL.
NoStoredURL(bytes) ==
    \A i \in 1..Len(bytes) :
        bytes[i].t = "otherCreds" =>
            \A u \in DOMAIN bytes[i].other : bytes[i].other[u].ServerURL = ""

\* C12: in every reachable state, whole file or short write, every entry of
\* otherCreds in the file has an empty ServerURL inside its value, and the
\* entry a successful SetOtherCreds(c) stores under c.ServerURL has it too.
C12_StoredValuesHaveNoURL ==
    /\ NoStoredURL(file.bytes)
    /\ (last.op = "SetOtherCreds" /\ last.err = NoErr) =>
           /\ last.arg[1].ServerURL # ""
           /\ RecordOf(file).OtherCreds.kv[last.arg[1].ServerURL].ServerURL = ""

\* A file that holds an entry for each URL, the last one just stored.
C12_Witness ==
    /\ last.op = "SetOtherCreds" /\ last.err = NoErr
    /\ Valid(file)
    /\ DOMAIN RecordOf(file).OtherCreds.kv = URLs
    /\ DOMAIN RecordOf(pre).OtherCreds.kv # URLs

\* C13: the file goes from absent to present only through a successful
\* set, and once present it stays present.
C13_FileLifecycle ==
    /\ pre.present => file.present
    /\ (~pre.present /\ file.present) => (last.op \in Setters /\ last.err = NoErr)

\* Every read of the file f fails with the decode error.
ReadsFailToDecode(f) ==
    /\ GetGCRAuth(f).err = ErrDecode
    /\ AllThirdPartyCreds(f).err = ErrDecode
    /\ \A u \in URLs : GetOtherCreds(f, u).err = ErrDecode

\* C14 as stated: no call of the store takes the file out of
\* Present(corrupt).
C14_CorruptIsTerminal == Corrupt(pre) => Corrupt(file)

\* C14, amended: while the file is corrupt every read fails with the decode
\* error; a get, a list, a token source or a delete called on a corrupt
\* file fails with the decode error and leaves the file as it is; a set
\* called on a corrupt file does not give up: it rewrites the file from an
\* empty record, and when it returns no error the file is valid.  Only a
\* set takes the file out of Present(corrupt), and the file stays present.
C14_CorruptUntilSet ==
    /\ Corrupt(file) => ReadsFailToDecode(file)
    /\ Corrupt(pre) =>
           /\ file.present
           /\ last.op \in ReadOnlyCalls \cup Deleters =>
                  (last.err = ErrDecode /\ last.io = "unused" /\ file = pre)
           /\ last.op \in Setters =>
                  /\ last.io # "unused"
                  /\ last.err = NoErr => Valid(file)
           /\ ~Corrupt(file) => last.op \in Setters

\* A set that repaired a corrupt file.
C14_Witness ==
    /\ Corrupt(pre) /\ pre.bytes # <<>>
    /\ last.op = "SetGCRAuth" /\ last.err = NoErr
    /\ Valid(file)
    /\ GetGCRAuth(file).err = NoErr

\* The item a delete call is about is in the record.
TargetExists(op, arg, creds) ==
    IF op = "DeleteGCRAuth"
    THEN creds.GCRCreds # <<>>
    ELSE arg[1] \in DOMAIN creds.OtherCreds.kv

\* C15: DeleteOtherCreds(u) on a valid file with no entry for u, and
\* DeleteGCRAuth on a valid file with no primary auth, return no error
\* without a create, truncate or write of the file; a delete gets as far as
\* creating the file only when the target is in the loaded record.
C15_DeleteWritesOnlyOnChange ==
    last.op \in Deleters =>
        /\ (Valid(pre) /\ ~TargetExists(last.op, last.arg, RecordOf(pre))) =>
               (last.err = NoErr /\ last.io = "unused" /\ file = pre)
        /\ last.io # "unused" =>
               (Valid(pre) /\ TargetExists(last.op, last.arg, RecordOf(pre)))
        /\ (Valid(pre) /\ TargetExists(last.op, last.arg, RecordOf(pre))) =>
               last.io # "unused"

\* Deletes that had nothing to delete in a file that holds something else.
C15_Witness ==
    /\ last.op = "DeleteGCRAuth" /\ last.err = NoErr /\ last.io = "unused"
    /\ Valid(pre) /\ RecordOf(pre).GCRCreds = <<>>
    /\ DOMAIN RecordOf(pre).OtherCreds.kv # {}
    /\ file = pre

(***************************************************************************)
(* Properties of Spec: the codec and the errors.                           *)
(***************************************************************************)
\* The record a mutator call hands to setDockerCredentials.
Written(op, arg, f) == Plan(op, arg, loadDockerCredentials(f)).creds

\* Two records hold the same: the same primary auth (its expiry the same
\* instant, or absent in both) and the same entries.  A nil map and an
\* empty one are the same mapping, and a monotonic clock reading is not
\* part of an instant.
SameRecord(a, b) ==
    /\ a.OtherCreds.kv = b.OtherCreds.kv
    /\ (a.GCRCreds = <<>>) = (b.GCRCreds = <<>>)
    /\ a.GCRCreds # <<>> =>
           /\ a.GCRCreds[1].AccessToken = b.GCRCreds[1].AccessToken
           /\ a.GCRCreds[1].RefreshToken = b.GCRCreds[1].RefreshToken
           /\ (a.GCRCreds[1].TokenExpiry = <<>>) = (b.GCRCreds[1].TokenExpiry = <<>>)
           /\ a.GCRCreds[1].TokenExpiry # <<>> =>
                  a.GCRCreds[1].TokenExpiry[1].wall = b.GCRCreds[1].TokenExpiry[1].wall

\* No member of the encoding is a null placeholder.
NoNullPlaceholder(bytes) ==
    \A i \in 1..Len(bytes) :
        bytes[i].t = "gcrCreds" => bytes[i].gcr.token_expiry.kind # "null"

\* C16: every record r a mutator writes decodes from its encoding to r
\* again, and the encoding leaves out the optional fields r lacks instead
\* of writing null for them.
C16_CodecRoundTrip ==
    (last.op \in Mutators /\ last.io # "unused") =>
        LET r == Written(last.op, last.arg, pre)
        IN  /\ Decode(Encode(r)).ok
            /\ SameRecord(Decode(Encode(r)).creds, r)
            /\ NoNullPlaceholder(Encode(r))

\* C17: every error a public operation of the store returns carries the
\* prefix of the store.
C17_ErrorsCarryPrefix ==
    (last.op \in Readers \cup Mutators /\ last.err # NoErr) => last.err \in authErr

(***************************************************************************)
(* Properties of Spec: what a mutator leaves alone.                        *)
(***************************************************************************)
\* The entries of the record a other than the one for the URL u.
EntriesBut(a, u) ==
    [v \in (DOMAIN a.OtherCreds.kv) \ {u} |-> a.OtherCreds.kv[v]]

\* C18: on a file that holds a valid record, a successful SetGCRAuth or
\* DeleteGCRAuth leaves the whole otherCreds mapping as it was, and a
\* successful SetOtherCreds(c) or DeleteOtherCreds(u) leaves the primary
\* auth and the entry of every other URL as they were.
C18_CrossKindFrame ==
    (last.op \in Mutators /\ Valid(pre) /\ last.err = NoErr) =>
        /\ Valid(file)
        /\ last.op \in {"SetGCRAuth", "DeleteGCRAuth"} =>
               RecordOf(file).OtherCreds.kv = RecordOf(pre).OtherCreds.kv
        /\ last.op = "SetOtherCreds" =>
               /\ RecordOf(file).GCRCreds = RecordOf(pre).GCRCreds
               /\ EntriesBut(RecordOf(file), last.arg[1].ServerURL)
                      = EntriesBut(RecordOf(pre), last.arg[1].ServerURL)
        /\ last.op = "DeleteOtherCreds" =>
               /\ RecordOf(file).GCRCreds = RecordOf(pre).GCRCreds
               /\ EntriesBut(RecordOf(file), last.arg[1])
                      = EntriesBut(RecordOf(pre), last.arg[1])

\* A set of one URL's entry in a file that holds primary auth and another
\* URL's entry.
C18_Witness ==
    /\ last.op = "SetOtherCreds" /\ last.err = NoErr /\ last.io = "ok"
    /\ Valid(pre) /\ Valid(file)
    /\ RecordOf(pre).GCRCreds # <<>>
    /\ RecordOf(file).GCRCreds = RecordOf(pre).GCRCreds
    /\ \E u \in URLs \ {last.arg[1].ServerURL} :
           /\ u \in DOMAIN RecordOf(pre).OtherCreds.kv
           /\ u \in DOMAIN RecordOf(file).OtherCreds.kv

(***************************************************************************)
(* Properties of Spec: the store against the abstract store.               *)
(***************************************************************************)
\* The gets answer like the abstract store a: GetOtherCreds(u) succeeds
\* exactly when a has a credential for u and returns it as stored, and
\* GetGCRAuth succeeds exactly when a has primary auth.
GetsAnswerLike(a, f) ==
    /\ \A u \in URLs :
           /\ (GetOtherCreds(f, u).err = NoErr) = (u \in DOMAIN a.kv)
           /\ u \in DOMAIN a.kv => GetOtherCreds(f, u).res = <<Stored(a.kv[u])>>
    /\ (GetGCRAuth(f).err = NoErr) = a.auth

\* AllThirdPartyCreds returns exactly the entries of the abstract store a.
ListAnswersLike(a, f) ==
    /\ AllThirdPartyCreds(f).err = NoErr
    /\ AllThirdPartyCreds(f).res[1].kv = [u \in DOMAIN a.kv |-> Stored(a.kv[u])]

\* C19 as stated: from an absent file, after any sequence of successful
\* sets and deletes, the gets and the list answer like the abstract store.
C19_RefinesAbstractStore ==
    abs.ok => (GetsAnswerLike(abs, file) /\ ListAnswersLike(abs, file))

\* C19, amended: from an absent file, after any sequence of successful sets
\* and deletes, the gets answer like the abstract store (a credential comes
\* back as stored, its own URL cleared), and so does AllThirdPartyCreds once
\* a set has created the file; while there is still no file (no set so far)
\* the abstract store is empty and AllThirdPartyCreds fails with the
\* not-exist error of the open instead of returning no entries.
C19_RefinesOnceFileExists ==
    abs.ok =>
        /\ GetsAnswerLike(abs, file)
        /\ file.present => ListAnswersLike(abs, file)
        /\ ~file.present =>
               /\ ~abs.auth /\ DOMAIN abs.kv = {}
               /\ IsNotExist(AllThirdPartyCreds(file).err)

\* After sets and deletes that all succeeded: one URL's credential set a
\* second time, the other deleted, primary auth set.
C19_Witness ==
    /\ abs.ok /\ abs.auth
    /\ last.op = "SetOtherCreds" /\ last.arg[1].ServerURL \in DOMAIN RecordOf(pre).OtherCreds.kv
    /\ RecordOf(pre).OtherCreds.kv[last.arg[1].ServerURL] # Stored(last.arg[1])
    /\ DOMAIN abs.kv = {last.arg[1].ServerURL}
    /\ GetOtherCreds(file, last.arg[1].ServerURL).res = <<Stored(last.arg[1])>>

====
